---- MODULE Spec2Model ----
(***************************************************************************)
(* Payment dispatch: the submission gateway (src/api/main.py) and the      *)
(* dispatch worker (src/worker/worker.py) around one shared store.         *)
(*                                                                         *)
(* The store is the set of keys both programs use: the list payment_queue, *)
(* the keys processing:<correlationId> (locks, set with a 300 s expiry),   *)
(* the sets submitted_payments, pending_payments, processed_payments and   *)
(* failed_payments, and the hash summary.  Every store round trip of the   *)
(* code (one command, or one pipeline, which redis-py runs as MULTI/EXEC)  *)
(* is one atomic step; the create_payment calls and the workers interleave *)
(* freely.  The two payment processors are external: a dispatch (one call  *)
(* of process_with_retry, which touches no store key) is one step, its     *)
(* requests answered by any of the sequences of ResponseSeqs.  Time is     *)
(* abstracted: a lock may expire at any moment, the 30 s reconciliation    *)
(* timer may be due at any loop turn.  Amounts are integers (the float     *)
(* arithmetic of the store is not modelled).  The lock's value (a tracing  *)
(* id nothing reads), the key worker:<id>:status and the endpoint          *)
(* purge_payments are not modelled.                                        *)
(*                                                                         *)
(* Specifications: Spec (FairSpec with fairness) is the gateway and the    *)
(* workers, connected and in their loop; BatchSpec is one worker taking a  *)
(* queue of any payloads, foreign ones included, batch by batch;           *)
(* DispatchSpec is one process_with_retry call over any task and any       *)
(* sequence of processor answers; LifeSpec (FairLifeSpec with fairness)    *)
(* is main from the start of the process: connect_redis, the loop, the     *)
(* exceptions of a cycle, the store going away and coming back.            *)
(***************************************************************************)
EXTENDS Integers, Sequences, FiniteSets, TLC

\* ---------------------------------------------------------------- bounds
CorrIds == {"c1", "c2"}
\* The payment requests clients send: a correlationId and its amount.
Requests == {[correlationId |-> "c1", amount |-> 2],
             [correlationId |-> "c2", amount |-> 3]}
Workers == {"w1", "w2"}

\* Number of create_payment calls that may pass the duplicate check.
MaxSubmit == 2

\* Bound: the tasks on payment_queue at the start of BatchSpec.
MaxQueue == 3

\* ------------------------------------------------------ program constants
BATCH_SIZE == 2
MAX_RETRIES == 3
DRAIN_CAP == 50

\* What a processor request can come back with: a status, or no response
\* (asyncio.TimeoutError), or a transport error (aiohttp.ClientError).
Responses == {"200", "201", "500", "timeout", "refused"}

VARIABLES
    payment_queue,       \* store: list of task payloads, head first
    locks,               \* store: the c whose key processing:<c> exists
    submitted_payments,  \* store: set
    pending_payments,    \* store: set
    processed_payments,  \* store: set
    failed_payments,     \* store: set
    summary,             \* store: hash success, success_amount, fallback, fallback_amount
    gw,                  \* per request: create_payment calls between check and pipeline
    nsub,                \* create_payment calls that passed the duplicate check
    wpc,                 \* per worker: position in main's loop
    batch,               \* per worker: raw payloads fetch_batch collected
    disp,                \* per worker: per decoded task, the dispatch progress:
                         \*   dreq, freq: requests sent to default, fallback
                         \*   dok, fok: success responses among them
                         \*   dres, fres: "run", or the dispatch returned "ok", "fail"
    orph,                \* per worker: check_orphaned_payments' local set
    charged,             \* history: success responses given by processors, per c
    writes,              \* history: terminal records written, per c
    rec,                 \* history: outcome of the first processed record, per c
    mpc,                 \* per worker: position in main: "connect", "wait", "loop", "exited"
    status,              \* per worker: health_info["status"]
    conn_attempt,        \* per worker: connect_redis' attempt (0-based)
    tries,               \* history: connection attempts since the process started, per worker
    redis_up,            \* environment: the store answers
    fault,               \* history: the call of the last cycle that lost the store, per worker
    call,                \* a process_with_retry call on its own: payment and processor answers
    ret,                 \* what that call came back with
    answer               \* under SubmitSpec: the correlationId last answered already_queued

storeVars == <<payment_queue, locks, submitted_payments, pending_payments,
               processed_payments, failed_payments, summary>>
workerVars == <<wpc, batch, disp, orph>>
histVars == <<charged, writes, rec>>
mainVars == <<mpc, status, conn_attempt, tries, redis_up, fault>>
callVars == <<call, ret, answer>>
vars == <<payment_queue, locks, submitted_payments, pending_payments,
          processed_payments, failed_payments, summary, gw, nsub,
          wpc, batch, disp, orph, charged, writes, rec,
          mpc, status, conn_attempt, tries, redis_up, fault, call, ret, answer>>

Min(a, b) == IF a < b THEN a ELSE b

RECURSIVE SumOver(_, _)
SumOver(S, f) ==
    IF S = {} THEN 0
    ELSE LET x == CHOOSE y \in S : TRUE IN f[x] + SumOver(S \ {x}, f)

\* ------------------------------------------------------------ the store
ZeroSummary == [success |-> 0, success_amount |-> 0,
                fallback |-> 0, fallback_amount |-> 0]

\* The keys update_stats_and_release_locks touches, as one value.
Store == [pending |-> pending_payments, processed |-> processed_payments,
          failed |-> failed_payments, summary |-> summary, locks |-> locks]

\* Mutant of ApplyUpdate: the failure branch forgets its sadd.
ApplyUpdateDropFailed(st, u) ==
    LET s1 == [st EXCEPT !.pending = @ \ {u.corr_id}] IN
    IF u.success
    THEN LET s2 == [s1 EXCEPT !.processed = @ \cup {u.corr_id}] IN
         IF u.processor_type = "default"
         THEN [s2 EXCEPT !.summary.success = @ + 1,
                         !.summary.success_amount = @ + u.amount]
         ELSE [s2 EXCEPT !.summary.fallback = @ + 1,
                         !.summary.fallback_amount = @ + u.amount]
    ELSE s1

\* One stats_updates tuple queued on the pipeline.
ApplyUpdate(st, u) ==
    LET s1 == [st EXCEPT !.pending = @ \ {u.corr_id}] IN
    IF u.success
    THEN LET s2 == [s1 EXCEPT !.processed = @ \cup {u.corr_id}] IN
         IF u.processor_type = "default"
         THEN [s2 EXCEPT !.summary.success = @ + 1,
                         !.summary.success_amount = @ + u.amount]
         ELSE IF u.processor_type = "fallback"
         THEN [s2 EXCEPT !.summary.fallback = @ + 1,
                         !.summary.fallback_amount = @ + u.amount]
         ELSE s2
    ELSE [s1 EXCEPT !.failed = @ \cup {u.corr_id}]

RECURSIVE ApplyUpdates(_, _)
ApplyUpdates(st, ups) ==
    IF ups = <<>> THEN st
    ELSE ApplyUpdates(ApplyUpdate(st, Head(ups)), Tail(ups))

\* The unlink of the lock keys and, nested under it, the srem of the
\* additional pending entries.
ReleaseLocks(st, locks_to_release, pending_to_remove) ==
    IF locks_to_release # {}
    THEN LET s1 == [st EXCEPT !.locks = @ \ locks_to_release]
         IN IF pending_to_remove # {}
            THEN [s1 EXCEPT !.pending = @ \ pending_to_remove]
            ELSE s1
    ELSE st

\* The store after the pipeline of update_stats_and_release_locks ran.
update_stats_and_release_locks(st, stats_updates, locks_to_release, pending_to_remove) ==
    IF stats_updates = <<>> /\ locks_to_release = {} /\ pending_to_remove = {}
    THEN st
    ELSE ReleaseLocks(ApplyUpdates(st, stats_updates),
                      locks_to_release, pending_to_remove)

\* ------------------------------------------------------------ the gateway
\* json.dumps(task_data): the payload pushed on the queue.
TaskPayload(r) ==
    [kind |-> "json", correlationId |-> r.correlationId, amount |-> r.amount]

\* A create_payment that never finds the lock.
exists_lock_ignored(r) == FALSE

\* await redis_client.exists(lock_key), as create_payment reads it.
exists_lock(r) == r.correlationId \in locks

\* create_payment up to the answer of EXISTS processing:<c>.  With the lock
\* present the call returns already_queued and writes nothing; otherwise
\* the call goes on to its pipeline.  The calls of all gateway instances
\* run concurrently.
create_payment_check(r) ==
    /\ nsub < MaxSubmit
    /\ IF exists_lock(r)
       THEN UNCHANGED <<gw, nsub>>
       ELSE /\ gw' = [gw EXCEPT ![r] = @ + 1]
            /\ nsub' = nsub + 1
    /\ UNCHANGED <<storeVars, workerVars, histVars>>
    /\ UNCHANGED <<mainVars, call, ret>>

\* The check as a step of Spec: the answer is not kept.
GwCheck(r) == create_payment_check(r) /\ UNCHANGED answer

\* The check as a step of SubmitSpec: an already_queued answer is noted.
GwCheckAnswered(r) ==
    /\ create_payment_check(r)
    /\ answer' = IF exists_lock(r) THEN r.correlationId ELSE answer

\* create_payment's pipeline: SET lock EX 300, RPUSH, SADD submitted.
GwQueue(r) ==
    /\ gw[r] > 0
    /\ locks' = locks \cup {r.correlationId}
    /\ payment_queue' = Append(payment_queue, TaskPayload(r))
    /\ submitted_payments' = submitted_payments \cup {r.correlationId}
    /\ gw' = [gw EXCEPT ![r] = @ - 1]
    /\ UNCHANGED <<pending_payments, processed_payments, failed_payments,
                   summary, nsub, workerVars, histVars>>
    /\ UNCHANGED <<mainVars, callVars>>

\* The expiry (ex=300) of a lock key.
ExpireLock(c) ==
    /\ c \in locks
    /\ locks' = locks \ {c}
    /\ UNCHANGED <<payment_queue, submitted_payments, pending_payments,
                   processed_payments, failed_payments, summary, gw, nsub,
                   workerVars, histVars>>
    /\ UNCHANGED <<mainVars, callVars>>

\* ------------------------------------------------------------- the worker
\* The keys process_with_retry and process_batch read from a decoded task.
PaymentKeys == {"correlationId", "amount"}

\* Payloads no create_payment call writes, as another producer may leave
\* them on payment_queue: the legacy correlationId|amount text, a text that
\* is neither JSON nor has a "|", a text with more than one "|", and JSON
\* objects lacking correlationId or amount.
LegacyPayload(r) ==
    [kind |-> "legacy", correlationId |-> r.correlationId, amount |-> r.amount]

ForeignPayloads ==
    {LegacyPayload(r) : r \in {q \in Requests : q.correlationId = "c1"}}
    \cup {[kind |-> k, correlationId |-> "-", amount |-> 0] : k \in {"text", "bars"}}
    \cup {[kind |-> "json_no_id", correlationId |-> "-", amount |-> 2],
          [kind |-> "json_no_amount", correlationId |-> "c2", amount |-> 0]}

\* parse_payment: json.loads first (the decoded object has the keys the
\* payload has); on a JSONDecodeError the legacy form when the text has a
\* "|", which raises ValueError unless the text splits in two; otherwise the
\* JSONDecodeError is raised again.
parse_payment(task) ==
    IF task.kind = "json"
    THEN [ok |-> TRUE, correlationId |-> task.correlationId, amount |-> task.amount,
          keys |-> PaymentKeys]
    ELSE IF task.kind = "json_no_id"
    THEN [ok |-> TRUE, correlationId |-> "-", amount |-> task.amount,
          keys |-> {"amount"}]
    ELSE IF task.kind = "json_no_amount"
    THEN [ok |-> TRUE, correlationId |-> task.correlationId, amount |-> 0,
          keys |-> {"correlationId"}]
    ELSE IF task.kind = "legacy"
    THEN [ok |-> TRUE, correlationId |-> task.correlationId, amount |-> task.amount,
          keys |-> PaymentKeys]
    ELSE [ok |-> FALSE, correlationId |-> "-", amount |-> 0, keys |-> {}]

\* process_batch's parse loop, giving one dispatch slot per decoded task.
RECURSIVE ParseBatch(_)
ParseBatch(b) ==
    IF b = <<>> THEN <<>>
    ELSE LET p == parse_payment(Head(b)) IN
         IF p.ok
         THEN <<[correlationId |-> p.correlationId, amount |-> p.amount,
                 keys |-> p.keys,
                 dreq |-> 0, dok |-> 0, dres |-> "run",
                 freq |-> 0, fok |-> 0, fres |-> "run"]>>
              \o ParseBatch(Tail(b))
         ELSE ParseBatch(Tail(b))

\* fetch_batch, first round trip: BLPOP with the poll timeout.
FetchBlpop(w) ==
    /\ wpc[w] \in {"idle", "fetch"}
    /\ IF payment_queue = <<>>
       THEN /\ wpc' = [wpc EXCEPT ![w] = "idle"]
            /\ UNCHANGED <<payment_queue, batch>>
       ELSE /\ batch' = [batch EXCEPT ![w] = <<Head(payment_queue)>>]
            /\ payment_queue' = Tail(payment_queue)
            /\ wpc' = [wpc EXCEPT ![w] = "drain"]
    /\ UNCHANGED <<locks, submitted_payments, pending_payments, processed_payments,
                   failed_payments, summary, gw, nsub, disp, orph, histVars>>
    /\ UNCHANGED <<mainVars, callVars>>

\* Number of LPOPs fetch_batch pipelines after the BLPOP.
\* Mutant of Remaining: the task of the BLPOP is not counted.
RemainingAll(batch_size) == Min(batch_size, DRAIN_CAP)

Remaining(batch_size) == Min(batch_size - 1, DRAIN_CAP)

\* fetch_batch, second round trip: the pipelined LPOPs; then process_batch
\* decodes the batch (no payment decoded: the batch is dropped).
FetchDrain(w) ==
    /\ wpc[w] = "drain"
    /\ LET k == Min(Remaining(BATCH_SIZE), Len(payment_queue))
           b == batch[w] \o SubSeq(payment_queue, 1, k)
           payments == ParseBatch(b)
       IN /\ payment_queue' = SubSeq(payment_queue, k + 1, Len(payment_queue))
          /\ IF payments = <<>>
             THEN /\ wpc' = [wpc EXCEPT ![w] = "idle"]
                  /\ batch' = [batch EXCEPT ![w] = <<>>]
                  /\ UNCHANGED disp
             ELSE /\ wpc' = [wpc EXCEPT ![w] = "dispatch"]
                  /\ batch' = [batch EXCEPT ![w] = b]
                  /\ disp' = [disp EXCEPT ![w] = payments]
    /\ UNCHANGED <<locks, submitted_payments, pending_payments, processed_payments,
                   failed_payments, summary, gw, nsub, orph, histVars>>
    /\ UNCHANGED <<mainVars, callVars>>

\* The answers a processor may give to the requests of one dispatch, one
\* more than the dispatch should ever send: it answers 200 at once, or
\* rejects k requests and answers 200 from then on (k the last retry, or all
\* MAX_RETRIES attempts), or it times out on every request.
RejectCounts == {0, MAX_RETRIES - 1, MAX_RETRIES}

ResponseSeqs ==
    {[j \in 1..MAX_RETRIES + 1 |-> IF j <= k THEN "500" ELSE "200"] :
        k \in RejectCounts}
    \cup {[j \in 1..MAX_RETRIES + 1 |-> "timeout"]}

\* Mutant of IsSuccess: every status of the 2xx class counts.
IsSuccess2xx(resp) == resp \in {"200", "201"}

\* One attempt of process_with_retry succeeded (resp.status == 200).
IsSuccess(resp) == resp = "200"

\* process_with_retry's loop from attempt number `attempt` on (0-based, as in
\* range(MAX_RETRIES)); resps[k] answers the k-th request.  Gives the number
\* of requests sent and the returned success flag.
\* Mutant of RetryLoop: the loop bound is off by one.
RECURSIVE RetryLoopOffByOne(_, _)
RetryLoopOffByOne(attempt, resps) ==
    IF attempt > MAX_RETRIES
    THEN [req |-> attempt, res |-> "fail"]
    ELSE IF IsSuccess(resps[attempt + 1])
    THEN [req |-> attempt + 1, res |-> "ok"]
    ELSE RetryLoopOffByOne(attempt + 1, resps)

RECURSIVE RetryLoop(_, _)
RetryLoop(attempt, resps) ==
    IF attempt >= MAX_RETRIES
    THEN [req |-> attempt, res |-> "fail"]
    ELSE IF IsSuccess(resps[attempt + 1])
    THEN [req |-> attempt + 1, res |-> "ok"]
    ELSE RetryLoop(attempt + 1, resps)

\* BACKOFF_BASE, 0.5 s, in milliseconds.
BACKOFF_BASE_MS == 500

\* random.random(), drawn in quarters: 0, 1/4, 1/2, 3/4.
JitterQuarters == {0, 1, 2, 3}

\* Mutant of backoff: the exponent starts at 0 with the first retry.
backoff_from_base(attempt, r) == (BACKOFF_BASE_MS * (2 ^ (attempt - 1)) * (2 + r)) \div 4

\* BACKOFF_BASE * (2 ** attempt) * (0.5 + random.random()), in milliseconds,
\* r the draw of random.random() in quarters.
backoff(attempt, r) == (BACKOFF_BASE_MS * (2 ^ attempt) * (2 + r)) \div 4

\* The asyncio.sleep calls of process_with_retry's loop from attempt number
\* `attempt` on, in order: none before attempt 0, backoff before every later
\* attempt; jit[a] is the draw of random.random() before attempt a.
RECURSIVE SleepLoop(_, _, _)
SleepLoop(attempt, resps, jit) ==
    IF attempt >= MAX_RETRIES
    THEN <<>>
    ELSE (IF attempt > 0 THEN <<backoff(attempt, jit[attempt])>> ELSE <<>>)
         \o (IF IsSuccess(resps[attempt + 1])
             THEN <<>>
             ELSE SleepLoop(attempt + 1, resps, jit))

\* The sleeps of a process_with_retry call: none when it raises KeyError.
process_with_retry_sleeps(payment, resps, jit) ==
    IF PaymentKeys \subseteq payment.keys
    THEN SleepLoop(0, resps, jit)
    ELSE <<>>

\* process_with_retry: payment["correlationId"] and payment["amount"] are
\* read before the loop and outside its try, so a payment lacking one of
\* them makes the call raise KeyError with no request sent.
process_with_retry(payment, resps) ==
    IF PaymentKeys \subseteq payment.keys
    THEN RetryLoop(0, resps)
    ELSE [req |-> 0, res |-> "raise"]

\* Success responses among the requests a dispatch sent.
Charges(resps, req) == Cardinality({k \in 1..req : IsSuccess(resps[k])})

\* Mutant of AllDefaultDone: the fallback does not wait for the default.
AllDefaultDoneNoWait(slots) == TRUE

\* asyncio.gather over the default dispatches has returned.
AllDefaultDone(slots) == \A i \in 1..Len(slots) : slots[i].dres # "run"

\* Mutant of fallback_indices: every task goes on to the fallback.
fallback_indices_all(slots) == 1..Len(slots)

\* The tasks process_batch hands to the fallback processor: the default
\* dispatch returned failure or raised.
fallback_indices(slots) == {i \in 1..Len(slots) : slots[i].dres # "ok"}

\* Both gathers have returned.
DispatchDone(slots) ==
    /\ AllDefaultDone(slots)
    /\ \A i \in fallback_indices(slots) : slots[i].fres # "run"

\* The first gather: process_with_retry(..., "default") for every task of
\* the batch, the default processor answering task i with rs[i].
DefaultGather(w, rs) ==
    /\ wpc[w] = "dispatch"
    /\ ~AllDefaultDone(disp[w])
    /\ DOMAIN rs = 1..Len(disp[w])
    /\ LET out == [i \in 1..Len(disp[w]) |-> process_with_retry(disp[w][i], rs[i])] IN
       /\ disp' = [disp EXCEPT ![w] =
                      [i \in 1..Len(disp[w]) |->
                          [disp[w][i] EXCEPT !.dreq = out[i].req,
                                             !.dok = Charges(rs[i], out[i].req),
                                             !.dres = out[i].res]]]
       /\ charged' = [c \in CorrIds |-> charged[c] +
                         SumOver({i \in 1..Len(disp[w]) : disp[w][i].correlationId = c},
                                 [i \in 1..Len(disp[w]) |-> Charges(rs[i], out[i].req)])]
    /\ UNCHANGED <<storeVars, gw, nsub, wpc, batch, orph, writes, rec>>
    /\ UNCHANGED <<mainVars, callVars>>

\* The second gather: process_with_retry(..., "fallback") for the tasks of
\* fallback_indices, the fallback processor answering task i with rs[i].
FallbackGather(w, rs) ==
    /\ wpc[w] = "dispatch"
    /\ AllDefaultDone(disp[w])
    /\ fallback_indices(disp[w]) # {}
    /\ \E i \in fallback_indices(disp[w]) : disp[w][i].fres = "run"
    /\ DOMAIN rs = fallback_indices(disp[w])
    /\ LET F == fallback_indices(disp[w])
           out == [i \in F |-> process_with_retry(disp[w][i], rs[i])]
       IN
       /\ disp' = [disp EXCEPT ![w] =
                      [i \in 1..Len(disp[w]) |->
                          IF i \in F
                          THEN [disp[w][i] EXCEPT !.freq = out[i].req,
                                                  !.fok = Charges(rs[i], out[i].req),
                                                  !.fres = out[i].res]
                          ELSE disp[w][i]]]
       /\ charged' = [c \in CorrIds |-> charged[c] +
                         SumOver({i \in F : disp[w][i].correlationId = c},
                                 [i \in F |-> Charges(rs[i], out[i].req)])]
    /\ UNCHANGED <<storeVars, gw, nsub, wpc, batch, orph, writes, rec>>
    /\ UNCHANGED <<mainVars, callVars>>

\* process_batch's consolidation of one task.
Outcome(s, inFallback) ==
    IF s.dres = "ok"
    THEN [success |-> TRUE, processor_type |-> "default",
          corr_id |-> s.correlationId, amount |-> s.amount]
    ELSE IF inFallback
    THEN IF s.fres = "ok"
         THEN [success |-> TRUE, processor_type |-> "fallback",
               corr_id |-> s.correlationId, amount |-> s.amount]
         ELSE [success |-> FALSE, processor_type |-> "fallback",
               corr_id |-> s.correlationId, amount |-> s.amount]
    ELSE [success |-> FALSE, processor_type |-> "default",
          corr_id |-> s.correlationId, amount |-> s.amount]

stats_updates(slots) ==
    [i \in 1..Len(slots) |-> Outcome(slots[i], i \in fallback_indices(slots))]

locks_to_release(slots) == {slots[i].correlationId : i \in 1..Len(slots)}

pending_to_remove(slots) == {slots[i].correlationId : i \in 1..Len(slots)}

\* History: terminal records a list of outcomes writes for c.
WritesFor(ups, c) == Cardinality({i \in 1..Len(ups) : ups[i].corr_id = c})

NoRecord == [label |-> "none", amount |-> 0]

\* History: the first success outcome for c in a list of outcomes.
FirstSuccess(ups, c) ==
    LET I == {i \in 1..Len(ups) : ups[i].corr_id = c /\ ups[i].success} IN
    IF I = {} THEN NoRecord
    ELSE LET m == CHOOSE i \in I : \A j \in I : i <= j IN
         [label |-> ups[m].processor_type, amount |-> ups[m].amount]

\* process_batch's consolidation loop reads payment["correlationId"] and
\* payment["amount"] of every decoded task with no try around them.
ConsolidationRaises(slots) ==
    \E i \in 1..Len(slots) : ~(PaymentKeys \subseteq slots[i].keys)

\* process_batch's call of update_stats_and_release_locks, pipeline executed.
WriteOk(w) ==
    /\ wpc[w] = "dispatch"
    /\ DispatchDone(disp[w])
    /\ ~ConsolidationRaises(disp[w])
    /\ LET ups == stats_updates(disp[w])
           st == update_stats_and_release_locks(Store, ups,
                     locks_to_release(disp[w]), pending_to_remove(disp[w]))
       IN /\ pending_payments' = st.pending
          /\ processed_payments' = st.processed
          /\ failed_payments' = st.failed
          /\ summary' = st.summary
          /\ locks' = st.locks
          /\ writes' = [c \in CorrIds |-> writes[c] + WritesFor(ups, c)]
          /\ rec' = [c \in CorrIds |->
                        IF c \in processed_payments THEN rec[c]
                        ELSE FirstSuccess(ups, c)]
    /\ wpc' = [wpc EXCEPT ![w] = "idle"]
    /\ batch' = [batch EXCEPT ![w] = <<>>]
    /\ disp' = [disp EXCEPT ![w] = <<>>]
    /\ UNCHANGED <<payment_queue, submitted_payments, gw, nsub, orph, charged>>
    /\ UNCHANGED <<mainVars, callVars>>

\* The same call with the store failing: the exception is logged, nothing
\* is written and process_batch returns.
WriteFail(w) ==
    /\ wpc[w] = "dispatch"
    /\ DispatchDone(disp[w])
    /\ ~ConsolidationRaises(disp[w])
    /\ wpc' = [wpc EXCEPT ![w] = "idle"]
    /\ batch' = [batch EXCEPT ![w] = <<>>]
    /\ disp' = [disp EXCEPT ![w] = <<>>]
    /\ UNCHANGED <<storeVars, gw, nsub, orph, histVars>>
    /\ UNCHANGED <<mainVars, callVars>>

\* The consolidation loop raises KeyError: process_batch is left before its
\* call of update_stats_and_release_locks, and main's handler of the cycle
\* logs the exception, sets the status "error", sleeps 1 s and goes on with
\* the next cycle.
BatchAbort(w) ==
    /\ wpc[w] = "dispatch"
    /\ DispatchDone(disp[w])
    /\ ConsolidationRaises(disp[w])
    /\ wpc' = [wpc EXCEPT ![w] = "idle"]
    /\ batch' = [batch EXCEPT ![w] = <<>>]
    /\ disp' = [disp EXCEPT ![w] = <<>>]
    /\ UNCHANGED <<storeVars, gw, nsub, orph, histVars>>
    /\ status' = [status EXCEPT ![w] = "error"]
    /\ UNCHANGED <<mpc, conn_attempt, tries, redis_up, fault, callVars>>

\* Mutant of orphan_stats: the orphans are recorded as failed.
RECURSIVE orphan_stats_failed(_)
orphan_stats_failed(orphaned) ==
    IF orphaned = {} THEN <<>>
    ELSE LET c == CHOOSE x \in orphaned : TRUE IN
         <<[success |-> FALSE, processor_type |-> "default", corr_id |-> c, amount |-> 0]>>
         \o orphan_stats_failed(orphaned \ {c})

\* The outcome list check_orphaned_payments passes on: empty.
orphan_stats(orphaned) == <<>>

\* Mutant of orphan_locks: the orphans' lock keys are released too.
orphan_locks_all(orphaned) == orphaned

\* The lock list check_orphaned_payments passes on: empty.
orphan_locks(orphaned) == {}

\* check_orphaned_payments, first round trip (the 30 s timer is due):
\* SMEMBERS pending_payments.  With the set empty the function returns at
\* once, having read only: that loop turn is the one of FetchBlpop.
OrphanScan(w) ==
    /\ wpc[w] = "idle"
    /\ pending_payments # {}
    /\ wpc' = [wpc EXCEPT ![w] = "exists"]
    /\ orph' = [orph EXCEPT ![w] = pending_payments]
    /\ UNCHANGED <<storeVars, gw, nsub, batch, disp, histVars>>
    /\ UNCHANGED <<mainVars, callVars>>

\* Second round trip: the pipelined EXISTS; the pending entries without a
\* lock are the orphans.
OrphanExists(w) ==
    /\ wpc[w] = "exists"
    /\ LET orphaned == {c \in orph[w] : c \notin locks} IN
       /\ orph' = [orph EXCEPT ![w] = orphaned]
       /\ wpc' = [wpc EXCEPT ![w] = IF orphaned = {} THEN "fetch" ELSE "clear"]
    /\ UNCHANGED <<storeVars, gw, nsub, batch, disp, histVars>>
    /\ UNCHANGED <<mainVars, callVars>>

\* Third round trip: update_stats_and_release_locks(redis, [], [], orphaned).
OrphanClear(w) ==
    /\ wpc[w] = "clear"
    /\ LET st == update_stats_and_release_locks(Store, orphan_stats(orph[w]),
                                                orphan_locks(orph[w]), orph[w])
       IN /\ pending_payments' = st.pending
          /\ processed_payments' = st.processed
          /\ failed_payments' = st.failed
          /\ summary' = st.summary
          /\ locks' = st.locks
    /\ wpc' = [wpc EXCEPT ![w] = "fetch"]
    /\ orph' = [orph EXCEPT ![w] = {}]
    /\ UNCHANGED <<payment_queue, submitted_payments, gw, nsub, batch, disp, histVars>>
    /\ UNCHANGED <<mainVars, callVars>>

\* ------------------------------------------------------------ main's loops
\* connect_redis: for attempt in range(5).
CONNECT_ATTEMPTS == 5

\* Bound: the connection attempts of one worker process.
MaxTries == 6

\* The functions of a cycle that call the store; each has its own
\* try/except Exception around the call.
StoreCalls == {"update_worker_status", "check_orphaned_payments", "fetch_batch",
               "update_stats_and_release_locks"}

\* What main's try blocks see raised in a cycle: the KeyError of
\* process_batch's consolidation loop, and the cancellation of the task.
CycleExceptions == {"KeyError", "CancelledError"}

\* The subclasses of Exception among the exceptions named here.
ExceptionClass == {"KeyError", "ConnectionError"}

\* Mutant of main_no_client: main gives up when connect_redis returns None.
main_no_client_exit == "exited"

\* main, connect_redis returned None: log, sleep 5 s, continue.
main_no_client == "wait"

\* main's handlers for an exception raised in a cycle, innermost first:
\* except Exception of the inner loop (status "error", sleep 1 s, next cycle
\* on the same connection), then except aioredis.ConnectionError and except
\* Exception of the outer loop (close the client, sleep, connect again);
\* anything else leaves main.
main_handler(exc, st) ==
    IF exc \in ExceptionClass THEN [mpc |-> "loop", status |-> "error"]
    ELSE IF exc = "ConnectionError" THEN [mpc |-> "connect", status |-> "reconnecting"]
    ELSE IF exc \in ExceptionClass THEN [mpc |-> "connect", status |-> "restarting"]
    ELSE [mpc |-> "exited", status |-> st]

\* One attempt of connect_redis: from_url and ping.
ConnectAttempt(w) ==
    /\ mpc[w] = "connect"
    /\ tries[w] < MaxTries
    /\ tries' = [tries EXCEPT ![w] = @ + 1]
    /\ IF redis_up
       THEN /\ mpc' = [mpc EXCEPT ![w] = "loop"]
            /\ status' = [status EXCEPT ![w] = "running"]
            /\ conn_attempt' = [conn_attempt EXCEPT ![w] = 0]
       ELSE IF conn_attempt[w] = CONNECT_ATTEMPTS - 1
       THEN /\ mpc' = [mpc EXCEPT ![w] = main_no_client]
            /\ conn_attempt' = [conn_attempt EXCEPT ![w] = 0]
            /\ UNCHANGED status
       ELSE /\ conn_attempt' = [conn_attempt EXCEPT ![w] = @ + 1]
            /\ UNCHANGED <<mpc, status>>
    /\ UNCHANGED <<storeVars, gw, nsub, workerVars, histVars, redis_up, fault, callVars>>

\* main after its 5 s sleep: the next connect_redis call.
ConnectWait(w) ==
    /\ mpc[w] = "wait"
    /\ mpc' = [mpc EXCEPT ![w] = "connect"]
    /\ UNCHANGED <<storeVars, gw, nsub, workerVars, histVars, status, conn_attempt, tries,
                   redis_up, fault, callVars>>

\* A store call of a cycle raises ConnectionError inside function f, whose
\* except Exception logs it and returns: the cycle goes on.
CycleStoreError(w, f) ==
    /\ mpc[w] = "loop"
    /\ ~redis_up
    /\ fault[w] # f
    /\ fault' = [fault EXCEPT ![w] = f]
    /\ UNCHANGED <<storeVars, gw, nsub, workerVars, histVars, mpc, status, conn_attempt, tries,
                   redis_up, callVars>>

\* An exception leaves the body of a cycle and meets main's handlers.
CycleRaise(w, exc) ==
    /\ mpc[w] = "loop"
    /\ mpc' = [mpc EXCEPT ![w] = main_handler(exc, status[w]).mpc]
    /\ status' = [status EXCEPT ![w] = main_handler(exc, status[w]).status]
    /\ UNCHANGED <<storeVars, gw, nsub, workerVars, histVars, conn_attempt, tries, redis_up,
                   fault, callVars>>

\* The store becomes unreachable, and reachable again.
StoreDown ==
    /\ redis_up
    /\ redis_up' = FALSE
    /\ UNCHANGED <<storeVars, gw, nsub, workerVars, histVars, mpc, status, conn_attempt, tries,
                   fault, callVars>>

StoreUp ==
    /\ ~redis_up
    /\ redis_up' = TRUE
    /\ UNCHANGED <<storeVars, gw, nsub, workerVars, histVars, mpc, status, conn_attempt, tries,
                   fault, callVars>>

\* The workers are connected and in their loop.
Running ==
    /\ mpc = [w \in Workers |-> "loop"]
    /\ status = [w \in Workers |-> "running"]
    /\ conn_attempt = [w \in Workers |-> 0]
    /\ tries = [w \in Workers |-> 1]
    /\ redis_up = TRUE
    /\ fault = [w \in Workers |-> "none"]

\* No process_with_retry call is looked at on its own.
NoPayment == [ok |-> FALSE, correlationId |-> "-", amount |-> 0, keys |-> {}]

NoCall == [payment |-> NoPayment, resps |-> <<>>, jit |-> <<>>]

NoReturn == [req |-> 0, res |-> "none", sleeps |-> <<>>]

Idle == call = NoCall /\ ret = NoReturn /\ answer = "none"

\* ------------------------------------------------------- the specification
\* The store is empty but for pending_payments, which no code of the
\* repository adds to: its content is whatever another writer left there.
Init ==
    /\ payment_queue = <<>>
    /\ locks = {}
    /\ submitted_payments = {}
    /\ pending_payments \in {{}, {"c1"}}
    /\ processed_payments = {}
    /\ failed_payments = {}
    /\ summary = ZeroSummary
    /\ gw = [r \in Requests |-> 0]
    /\ nsub = 0
    /\ wpc = [w \in Workers |-> "idle"]
    /\ batch = [w \in Workers |-> <<>>]
    /\ disp = [w \in Workers |-> <<>>]
    /\ orph = [w \in Workers |-> {}]
    /\ charged = [c \in CorrIds |-> 0]
    /\ writes = [c \in CorrIds |-> 0]
    /\ rec = [c \in CorrIds |-> NoRecord]
    /\ Running
    /\ Idle

GatewayStep ==
    \/ \E r \in Requests : GwCheck(r)
    \/ \E r \in Requests : GwQueue(r)

WorkerStep(w) ==
    \/ OrphanScan(w)
    \/ OrphanExists(w)
    \/ OrphanClear(w)
    \/ FetchBlpop(w)
    \/ FetchDrain(w)
    \/ \E rs \in [1..Len(disp[w]) -> ResponseSeqs] : DefaultGather(w, rs)
    \/ \E rs \in [fallback_indices(disp[w]) -> ResponseSeqs] : FallbackGather(w, rs)
    \/ WriteOk(w)
    \/ WriteFail(w)

Next ==
    \/ GatewayStep
    \/ \E c \in CorrIds : ExpireLock(c)
    \/ \E w \in Workers : WorkerStep(w)

Spec == Init /\ [][Next]_vars

\* Scheduling: every worker loop keeps running, a create_payment call that
\* passed its check goes on to its pipeline, and a lock's expiry comes.
Fairness ==
    /\ \A w \in Workers : WF_vars(WorkerStep(w))
    /\ \A r \in Requests : WF_vars(GwQueue(r))
    /\ \A c \in CorrIds : WF_vars(ExpireLock(c))

FairSpec == Init /\ [][Next]_vars /\ Fairness

\* -------------------------------------------- create_payment on its own
\* The gateway instances alone, from the empty store, with the answers of
\* the duplicate check kept.
SubmitNext ==
    \/ \E r \in Requests : GwCheckAnswered(r)
    \/ \E r \in Requests : GwQueue(r)
    \/ \E c \in CorrIds : ExpireLock(c)

SubmitSpec == Init /\ [][SubmitNext]_vars

\* ---------------------------------------- process_batch over any batch
\* What may be on payment_queue: the tasks of create_payment and the
\* payloads of other producers.
Payloads == {TaskPayload(r) : r \in Requests} \cup ForeignPayloads

QueueContents == UNION {[1..n -> Payloads] : n \in 0..MaxQueue}

\* A worker finds payment_queue filled, every correlationId on it under its
\* lock and in submitted_payments, nothing pending and no submission under
\* way.
BatchInit ==
    /\ payment_queue \in QueueContents
    /\ locks = {payment_queue[i].correlationId : i \in 1..Len(payment_queue)} \cap CorrIds
    /\ submitted_payments = locks
    /\ pending_payments = {}
    /\ processed_payments = {}
    /\ failed_payments = {}
    /\ summary = ZeroSummary
    /\ gw = [r \in Requests |-> 0]
    /\ nsub = 0
    /\ wpc = [w \in Workers |-> "idle"]
    /\ batch = [w \in Workers |-> <<>>]
    /\ disp = [w \in Workers |-> <<>>]
    /\ orph = [w \in Workers |-> {}]
    /\ charged = [c \in CorrIds |-> 0]
    /\ writes = [c \in CorrIds |-> 0]
    /\ rec = [c \in CorrIds |-> NoRecord]
    /\ Running
    /\ Idle

\* A worker's cycle without the reconciliation (its timer is not due).
BatchStep(w) ==
    \/ FetchBlpop(w)
    \/ FetchDrain(w)
    \/ \E rs \in [1..Len(disp[w]) -> ResponseSeqs] : DefaultGather(w, rs)
    \/ \E rs \in [fallback_indices(disp[w]) -> ResponseSeqs] : FallbackGather(w, rs)
    \/ WriteOk(w)
    \/ WriteFail(w)
    \/ BatchAbort(w)

\* One worker takes the queue batch by batch.
BatchWorkers == {CHOOSE w \in Workers : TRUE}

BatchNext == \E w \in BatchWorkers : BatchStep(w)

BatchSpec == BatchInit /\ [][BatchNext]_vars

\* ------------------------------------- process_with_retry over any call
\* The decoded tasks process_batch may hand to process_with_retry.
Payments == {parse_payment(t) : t \in {u \in Payloads : parse_payment(u).ok}}

\* A call: the task, what the processor answers to each request (one
\* answer more than the call should ever ask for), and the draws of
\* random.random() before the retries.
Calls == [payment : Payments, resps : [1..MAX_RETRIES + 1 -> Responses],
          jit : [1..MAX_RETRIES - 1 -> JitterQuarters]]

DispatchInit ==
    /\ payment_queue = <<>>
    /\ locks = {}
    /\ submitted_payments = {}
    /\ pending_payments = {}
    /\ processed_payments = {}
    /\ failed_payments = {}
    /\ summary = ZeroSummary
    /\ gw = [r \in Requests |-> 0]
    /\ nsub = 0
    /\ wpc = [w \in Workers |-> "idle"]
    /\ batch = [w \in Workers |-> <<>>]
    /\ disp = [w \in Workers |-> <<>>]
    /\ orph = [w \in Workers |-> {}]
    /\ charged = [c \in CorrIds |-> 0]
    /\ writes = [c \in CorrIds |-> 0]
    /\ rec = [c \in CorrIds |-> NoRecord]
    /\ Running
    /\ call \in Calls
    /\ ret = NoReturn
    /\ answer = "none"

\* The call runs to its return or to the exception it raises.
Dispatch ==
    /\ ret = NoReturn
    /\ ret' = [req |-> process_with_retry(call.payment, call.resps).req,
               res |-> process_with_retry(call.payment, call.resps).res,
               sleeps |-> process_with_retry_sleeps(call.payment, call.resps, call.jit)]
    /\ UNCHANGED <<storeVars, gw, nsub, workerVars, histVars, mainVars, call, answer>>

DispatchSpec == DispatchInit /\ [][Dispatch]_vars

\* ------------------------------------------------- main from its start
\* The worker processes start, the store reachable or not, nothing queued.
LifeInit ==
    /\ payment_queue = <<>>
    /\ locks = {}
    /\ submitted_payments = {}
    /\ pending_payments = {}
    /\ processed_payments = {}
    /\ failed_payments = {}
    /\ summary = ZeroSummary
    /\ gw = [r \in Requests |-> 0]
    /\ nsub = 0
    /\ wpc = [w \in Workers |-> "idle"]
    /\ batch = [w \in Workers |-> <<>>]
    /\ disp = [w \in Workers |-> <<>>]
    /\ orph = [w \in Workers |-> {}]
    /\ charged = [c \in CorrIds |-> 0]
    /\ writes = [c \in CorrIds |-> 0]
    /\ rec = [c \in CorrIds |-> NoRecord]
    /\ mpc = [w \in Workers |-> "connect"]
    /\ status = [w \in Workers |-> "starting"]
    /\ conn_attempt = [w \in Workers |-> 0]
    /\ tries = [w \in Workers |-> 0]
    /\ redis_up \in BOOLEAN
    /\ fault = [w \in Workers |-> "none"]
    /\ Idle

LifeStep(w) ==
    \/ ConnectAttempt(w)
    \/ ConnectWait(w)
    \/ \E f \in StoreCalls : CycleStoreError(w, f)
    \/ \E exc \in CycleExceptions : CycleRaise(w, exc)

LifeNext ==
    \/ StoreDown
    \/ StoreUp
    \/ \E w \in Workers : LifeStep(w)

LifeSpec == LifeInit /\ [][LifeNext]_vars

\* Scheduling: a worker process keeps running its own code; the store's
\* outages and the exceptions of a cycle come or not.
FairLifeSpec ==
    LifeInit /\ [][LifeNext]_vars
    /\ \A w \in Workers : WF_vars(ConnectAttempt(w) \/ ConnectWait(w))

\* ================================================================ claims
\* The correlationIds of the tasks worker w holds (dequeued, not yet
\* resolved).
Held(w) == {batch[w][i].correlationId : i \in 1..Len(batch[w])}

InFlight(c) == \E w \in Workers : c \in Held(w)

Queued(c) == \E i \in 1..Len(payment_queue) : payment_queue[i].correlationId = c

Terminal == processed_payments \cup failed_payments

\* C1: for any correlationId, whatever the interleaving of submissions and
\* workers, at most one terminal record (an add to processed_payments or
\* failed_payments by update_stats_and_release_locks) is ever written.
C1_AtMostOneTerminalWrite == \A c \in CorrIds : writes[c] <= 1

\* C2: for any correlationId at most one processor request ever receives a
\* success response: the same correlationId is never charged twice.
C2_NeverChargedTwice == \A c \in CorrIds : charged[c] <= 1

\* C3: under fair scheduling every submitted correlationId eventually is in
\* processed_payments or failed_payments, also when a store write failed.
C3_ExhaustiveAccounting ==
    \A c \in CorrIds : (c \in submitted_payments) ~> (c \in Terminal)

\* C3, second half: no correlationId stays in pending_payments forever
\* without a lock.
NoPendingLeak ==
    \A c \in CorrIds : ~<>[](c \in pending_payments /\ c \notin locks)

\* C4: summary.success (summary.fallback) is the number of processed
\* correlationIds recorded as a default (fallback) success, and each amount
\* counter is the sum of the amounts of those payments.
ProcessedAs(label) == {c \in processed_payments : rec[c].label = label}

RecordedAmount == [c \in CorrIds |-> rec[c].amount]

C4_StatsConsistency ==
    /\ summary.success = Cardinality(ProcessedAs("default"))
    /\ summary.fallback = Cardinality(ProcessedAs("fallback"))
    /\ summary.success + summary.fallback = Cardinality(processed_payments)
    /\ summary.success_amount = SumOver(ProcessedAs("default"), RecordedAmount)
    /\ summary.fallback_amount = SumOver(ProcessedAs("fallback"), RecordedAmount)

\* C5: a task whose default dispatch returned success gets no request to the
\* fallback processor.
C5_FallbackOnlyOnFailure ==
    \A w \in Workers : \A i \in 1..Len(disp[w]) :
        disp[w][i].dres = "ok" => disp[w][i].freq = 0

\* C5 witness: in one batch the default succeeded for one task while the
\* fallback was called for another.
C5_Witness ==
    \E w \in Workers : \E i, j \in 1..Len(disp[w]) :
        /\ disp[w][i].dres = "ok"
        /\ disp[w][j].dres = "fail"
        /\ disp[w][j].freq > 0

\* A returned dispatch: req requests sent, ok success responses among them.
\* Failure means MAX_RETRIES requests, all failed; success means the success
\* was the last request, within MAX_RETRIES.
DispatchBound(req, ok, res) ==
    /\ res = "run" => req = 0
    /\ res = "fail" => req = MAX_RETRIES /\ ok = 0
    /\ res = "ok" => ok = 1 /\ req >= 1 /\ req <= MAX_RETRIES

\* C6: a processor failing every request gets exactly MAX_RETRIES requests
\* and the dispatch returns failure; a dispatch stops at its first success;
\* with the default failing throughout and the fallback never failing, the
\* task gets MAX_RETRIES default requests, one fallback request, and the
\* outcome success under the fallback label.
C6_RetryBound ==
    \A w \in Workers : \A i \in 1..Len(disp[w]) :
        LET s == disp[w][i] IN
        /\ DispatchBound(s.dreq, s.dok, s.dres)
        /\ DispatchBound(s.freq, s.fok, s.fres)
        /\ (s.dres = "fail" /\ s.fres # "run" /\ s.freq = s.fok) =>
              /\ s.dreq = MAX_RETRIES
              /\ s.freq = 1
              /\ Outcome(s, i \in fallback_indices(disp[w])).success
              /\ Outcome(s, i \in fallback_indices(disp[w])).processor_type = "fallback"

\* C6 witness: scenario B has run.
C6_Witness ==
    \E w \in Workers : \E i \in 1..Len(disp[w]) :
        /\ disp[w][i].dres = "fail"
        /\ disp[w][i].dreq = MAX_RETRIES
        /\ disp[w][i].fres = "ok"
        /\ disp[w][i].freq = 1

\* C7 as stated: no state shows a dequeued payment without its lock and
\* without a terminal record.
C7_NoLockGap ==
    \A c \in CorrIds : (InFlight(c) /\ c \notin locks) => c \in Terminal

\* C7 as amended: a step that removes a lock either records the
\* correlationId in processed_payments or failed_payments in the same step
\* (the release by update_stats_and_release_locks), or is the lock's expiry.
C7_ReleaseWithRecord ==
    [][\A c \in CorrIds :
          (c \in locks /\ c \notin locks') => (c \in Terminal' \/ ExpireLock(c))]_vars

\* C7 witness: a worker has released the lock of a payment that failed on
\* both processors.
C7_Witness ==
    \E c \in CorrIds :
        /\ writes[c] > 0
        /\ c \in failed_payments
        /\ c \notin locks

\* The tasks of a batch that failed on both processors.
BothFailed(slots) ==
    {i \in 1..Len(slots) : slots[i].dres = "fail" /\ slots[i].fres = "fail"}

Successes(slots) ==
    Cardinality({i \in 1..Len(slots) : stats_updates(slots)[i].success})

\* C8: after process_batch has written a batch's outcomes, every task's lock
\* is gone and its correlationId is out of pending_payments; a task that
\* failed on both processors is in failed_payments and not in
\* processed_payments, and the counters rose by the successes only.
C8_BatchResolved ==
    [][\A w \in Workers :
          WriteOk(w) =>
             /\ \A i \in 1..Len(disp[w]) :
                   /\ disp[w][i].correlationId \notin locks'
                   /\ disp[w][i].correlationId \notin pending_payments'
             /\ \A i \in BothFailed(disp[w]) :
                   /\ disp[w][i].correlationId \in failed_payments'
                   /\ disp[w][i].correlationId \notin processed_payments'
             /\ summary'.success + summary'.fallback =
                   summary.success + summary.fallback + Successes(disp[w])]_vars

\* C9: when check_orphaned_payments has run to completion, every pending
\* correlationId it found without a lock is out of pending_payments.
C9_OrphansCleared ==
    [][\A w \in Workers :
          OrphanClear(w) => orph[w] \cap pending_payments' = {}]_vars

\* A lock nobody works under: not recorded, not pending, no task of it
\* queued or held by a worker, no submission of it under way.
Stale(c) ==
    /\ c \in locks
    /\ c \notin Terminal \cup pending_payments
    /\ ~Queued(c)
    /\ ~InFlight(c)
    /\ \A r \in Requests : r.correlationId = c => gw[r] = 0

\* A run of check_orphaned_payments by w ends with this step.
ReconcileEnds(w) == wpc[w] \in {"exists", "clear"} /\ wpc'[w] = "fetch"

\* C10 as stated: a reconciliation run removes the stale locks.
C10_StaleLockRemoved ==
    [][\A w \in Workers :
          ReconcileEnds(w) => \A c \in CorrIds : Stale(c) => c \notin locks']_vars

\* C10 as amended: no step of check_orphaned_payments removes a lock, and a
\* stale lock goes away by its expiry alone.
C10_StaleLockKept ==
    [][/\ \A w \in Workers :
             (OrphanScan(w) \/ OrphanExists(w) \/ OrphanClear(w)) => locks' = locks
       /\ \A c \in CorrIds :
             (Stale(c) /\ c \notin locks') => ExpireLock(c)]_vars

\* C10 witness: a reconciliation run has ended and a stale lock is there.
C10_Witness ==
    \E w \in Workers, c \in CorrIds : wpc[w] = "fetch" /\ Stale(c)

\* A task of a fetched batch that process_batch cannot resolve: it does not
\* decode, or it decodes to an object lacking correlationId or amount (the
\* task whose dispatch raises).
BadTask(task) ==
    ~parse_payment(task).ok \/ ~(PaymentKeys \subseteq parse_payment(task).keys)

\* process_batch returns or raises: the worker leaves the batch it held.
BatchLeft(w) == wpc[w] = "dispatch" /\ wpc'[w] = "idle" /\ ~WriteFail(w)

\* C11: when process_batch is done with a batch that held a bad task, and
\* the store did not fail, every other task of the batch has its terminal
\* record in processed_payments or failed_payments, its lock released and
\* its correlationId out of pending_payments.
C11_BadTaskIsolated ==
    [][\A w \in Workers :
          (BatchLeft(w) /\ \E i \in 1..Len(batch[w]) : BadTask(batch[w][i])) =>
             \A i \in 1..Len(batch[w]) :
                ~BadTask(batch[w][i]) =>
                   /\ batch[w][i].correlationId \in Terminal'
                   /\ batch[w][i].correlationId \notin locks'
                   /\ batch[w][i].correlationId \notin pending_payments']_vars

\* C12: a worker that lost the store during a cycle (the call failed in
\* fetch_batch, update_stats_and_release_locks, check_orphaned_payments or
\* update_worker_status) eventually is in the reconnecting state, unless
\* the process is stopped first.
C12_LossLeadsToReconnect ==
    \A w \in Workers :
        (fault[w] \in StoreCalls) ~> (status[w] = "reconnecting" \/ mpc[w] = "exited")

\* C12, second half: an exception of a cycle that is no connection loss
\* keeps the worker in its loop on the same connection.
OtherExceptionKeepsLoop ==
    [][\A w \in Workers :
          CycleRaise(w, "KeyError") => mpc'[w] = "loop" /\ status'[w] = "error"]_vars

MaxBatchSize == 60

\* The LPOPs pipelined for any batch size from 1 on.
DrainCounts ==
    \A bs \in 1..MaxBatchSize :
        Remaining(bs) = IF bs - 1 <= 50 THEN bs - 1 ELSE 50

Returned == ret # NoReturn

\* What the call came back with.
Result(req, res) == ret.req = req /\ ret.res = res

\* The first request of the call answered with status 200, if any.
First200 == {k \in 1..MAX_RETRIES : call.resps[k] = "200" /\
                                      \A j \in 1..k - 1 : call.resps[j] # "200"}

C19_NeverRaises == Returned => ret.res \in {"ok", "fail"}

\* C16: with the pipeline of an accepted create_payment call for c, one
\* task for c is appended to the tail of payment_queue, and c is in
\* submitted_payments and in pending_payments and has its lock, so that
\* these entries exist when a worker dequeues the task.
C16_SubmissionEntries ==
    [][\A r \in Requests :
          GwQueue(r) =>
             /\ payment_queue' = Append(payment_queue, TaskPayload(r))
             /\ r.correlationId \in submitted_payments'
             /\ r.correlationId \in pending_payments'
             /\ r.correlationId \in locks']_vars

\* C17: the step that starts a task's fallback dispatch finds its default
\* dispatch returned, failed after all its attempts; the step that writes
\* a batch's outcomes finds every default dispatch returned and every
\* fallback dispatch of a task that failed the default returned.
C17_DefaultThenFallbackThenWrite ==
    [][\A w \in Workers :
          /\ \A i \in 1..Len(disp[w]) :
                (Len(disp'[w]) = Len(disp[w]) /\ disp[w][i].freq = 0
                   /\ disp'[w][i].fres # "run") =>
                      disp[w][i].dres = "fail" /\ disp[w][i].dreq = MAX_RETRIES
          /\ (wpc[w] = "dispatch" /\ wpc'[w] = "idle" /\ writes' # writes) =>
                \A i \in 1..Len(disp[w]) :
                   /\ disp[w][i].dres \in {"ok", "fail"}
                   /\ disp[w][i].dres = "fail" => disp[w][i].fres \in {"ok", "fail"}]_vars

\* C17 witness: a task's record was written after its default dispatch
\* failed and its fallback dispatch succeeded.
C17_Witness == \E c \in processed_payments : writes[c] = 1 /\ rec[c].label = "fallback"

\* The outcome tuple C18 gives for a task: success under the default label
\* if the default dispatch succeeded, else the fallback's result under the
\* fallback label if the fallback was attempted, else failure under the
\* default label; with the task's own correlationId and amount.
ExpectedOutcome(s) ==
    [success |-> s.dres = "ok" \/ s.fres = "ok",
     processor_type |-> IF s.dres = "ok" THEN "default"
                        ELSE IF s.fres # "run" THEN "fallback" ELSE "default",
     corr_id |-> s.correlationId,
     amount |-> s.amount]

\* C18: when process_batch is done with a batch, and the store did not
\* fail, it has produced and written one outcome tuple per decoded task,
\* the one C18 gives for the task.
C18_OneOutcomePerTask ==
    [][\A w \in Workers :
          BatchLeft(w) =>
             /\ Len(stats_updates(disp[w])) = Len(disp[w])
             /\ \A i \in 1..Len(disp[w]) :
                   stats_updates(disp[w])[i] = ExpectedOutcome(disp[w][i])
             /\ \A c \in CorrIds :
                   writes'[c] = writes[c] +
                      Cardinality({i \in 1..Len(disp[w]) : disp[w][i].correlationId = c})]_vars

\* C20: no step of check_orphaned_payments adds to processed_payments or
\* failed_payments, changes the summary counters or the queue.
C20_ReconciliationOnlyClears ==
    [][\A w \in Workers :
          (OrphanScan(w) \/ OrphanExists(w) \/ OrphanClear(w)) =>
             /\ processed_payments' = processed_payments
             /\ failed_payments' = failed_payments
             /\ summary' = summary
             /\ payment_queue' = payment_queue]_vars

\* C20 witness: with no submission ever made, a reconciliation run has
\* found orphans and made its call of update_stats_and_release_locks.
C20_Witness ==
    \E w \in Workers :
        /\ wpc[w] = "fetch"
        /\ pending_payments # {}
        /\ nsub = 0
        /\ locks = {}

\* C21: processed_payments and failed_payments are disjoint, and a step
\* writes no terminal record (an add to either set, with its counter
\* increment) for a correlationId that is in one of them already.
C21_TerminalIsFinal ==
    [][/\ processed_payments' \cap failed_payments' = {}
       /\ \A c \in Terminal :
             /\ writes'[c] = writes[c]
             /\ c \in processed_payments => c \notin failed_payments'
             /\ c \in failed_payments => c \notin processed_payments']_vars

\* The un-jittered delay C22 gives before the k-th retry, in milliseconds.
ClaimedDelay(k) == BACKOFF_BASE_MS * (2 ^ (k - 1))

\* The un-jittered delay before the k-th retry as amended.
DoubledDelay(k) == BACKOFF_BASE_MS * (2 ^ k)

\* A sleep of s milliseconds is delay d times a jitter factor in [0.5, 1.5).
Jittered(s, d) == 2 * s >= d /\ 2 * s < 3 * d

\* C22 as stated: a call that sent req requests slept req - 1 times, never
\* before the first request, and before its k-th retry base * 2^(k-1) * j
\* with j in [0.5, 1.5): base itself when the draw gives j = 1.
C22_BackoffFromBase ==
    (Returned /\ ret.res # "raise") =>
        /\ Len(ret.sleeps) = ret.req - 1
        /\ \A k \in 1..Len(ret.sleeps) :
              /\ Jittered(ret.sleeps[k], ClaimedDelay(k))
              /\ call.jit[k] = 2 => ret.sleeps[k] = ClaimedDelay(k)

\* C22 as amended: the same with the delay base * 2^k before the k-th
\* retry: twice the base before the first retry, doubling from there.
C22_BackoffDoubled ==
    (Returned /\ ret.res # "raise") =>
        /\ Len(ret.sleeps) = ret.req - 1
        /\ \A k \in 1..Len(ret.sleeps) :
              /\ Jittered(ret.sleeps[k], DoubledDelay(k))
              /\ call.jit[k] = 2 => ret.sleeps[k] = DoubledDelay(k)

\* C22 witness: a call that made all its retries with jitter factor 1 has
\* slept twice the base, then four times the base.
C22_Witness ==
    /\ Returned
    /\ ret.req = MAX_RETRIES
    /\ \A k \in 1..MAX_RETRIES - 1 : call.jit[k] = 2
    /\ ret.sleeps = <<2 * BACKOFF_BASE_MS, 4 * BACKOFF_BASE_MS>>

\* C23: a create_payment call that finds the lock of its correlationId at
\* its check is answered already_queued and changes nothing in the store:
\* the queue, the locks and submitted_payments stay as they are, and the
\* call does not go on to its pipeline.
C23_DuplicateChangesNothing ==
    [][\A r \in Requests :
          (GwCheckAnswered(r) /\ r.correlationId \in locks) =>
             /\ answer' = r.correlationId
             /\ payment_queue' = payment_queue
             /\ locks' = locks
             /\ submitted_payments' = submitted_payments
             /\ UNCHANGED <<pending_payments, processed_payments, failed_payments,
                            summary>>
             /\ gw' = gw]_vars

\* C23 witness: a call for a locked correlationId has been answered
\* already_queued, with one task for it on the queue.
C23_Witness ==
    /\ answer \in locks
    /\ Len(payment_queue) = 1
    /\ payment_queue[1].correlationId = answer
    /\ answer \in submitted_payments

====
